---- MODULE Spec2Model ----
(***************************************************************************)
(* Model of signals::signal<Result(Args...)> (signals.hpp): the connection *)
(* ring, connect / disconnect / connected, and the reentrant emit loop.    *)
(*                                                                         *)
(* Heap objects are identified by their address.  `new` may return any     *)
(* address that is not currently allocated, so an address released by      *)
(* `delete` can be handed out again by a later `new`.                      *)
(* Slots are identified by the serial number of the connect call that      *)
(* registered them (1, 2, ...); an empty std::function is 0.               *)
(* Slot code is the environment: while a slot runs it may call connect,    *)
(* disconnect, connected and emit on its own signal, then returns a value  *)
(* or throws.  Slots do not catch the exceptions of nested emissions, and   *)
(* a slot that disconnects itself goes on running: its body does not use   *)
(* the closure that deactivate() has destroyed.                            *)
(*                                                                         *)
(* Specifications:                                                         *)
(*   Spec         connect, disconnect and reentrant emit (counter          *)
(*                aggregation), with slots that throw;                     *)
(*   SpecScoped   Spec's signal used through scoped_connection objects;    *)
(*   SpecAgg      emit with the last and collation aggregations and the    *)
(*                condition_while controllers, return values on record;    *)
(*   SpecNull     Spec with connect through a null receiver pointer;       *)
(*   SpecDestroy  a signal that is used and then destroyed;                *)
(*   SpecEmpty    connect with an empty std::function as well;             *)
(*   SpecWalk     emit whose slots only disconnect, return or throw, with  *)
(*                the steps of the call weakly fair;                       *)
(*   SpecNested   reentrant emit with the collation aggregation, return    *)
(*                values on record.                                        *)
(* In SpecScoped, SpecAgg, SpecDestroy, SpecEmpty and SpecWalk emit is     *)
(* called by the program only, not by a running slot.                      *)
(***************************************************************************)
EXTENDS Naturals, Integers, Sequences, FiniteSets, TLC

\* ---- bounds ------------------------------------------------------------
NumAddr  == 3      \* heap addresses 1..NumAddr
MaxConn  == 2      \* connect calls in one behaviour
MaxDepth == 2      \* emit calls nested on the call stack

\* ---- values ------------------------------------------------------------
Null   == 0                      \* nullptr / empty std::function
Addr   == 1..NumAddr
This   == "this"                 \* the signal under study
Other  == "other"                \* any other signal object
Sigs   == {This, Other}
Values == {0, 1}                 \* slot return values (false, true)

VARIABLES
    m_head,            \* signal_base::m_head.get(): sentinel address or Null
    m_next,            \* node_base::m_next, by address
    m_prev,            \* node_base::m_prev, by address
    m_function,        \* node::m_function, by address (0 = nullptr)
    heap,              \* addresses of the node objects that are alive
    m_recursionDepth,  \* signal_base::m_recursionDepth
    m_deactivations,   \* signal_base::m_deactivations
    stack,             \* activation records of the emit calls in progress
    exc,               \* an exception is propagating up the call stack
    ub,                \* the sentinel object was deleted (m_head dangles)
    ret,               \* what the last disconnect, emit or null connect returned
    nconn,             \* number of connect calls so far
    handle,            \* handle[s]: node address returned by the s-th connect
    alive,             \* serials whose node object has not been deleted
    disc,              \* serials for which a disconnect returned true
    scoped,            \* the program's scoped_connection objects
    life,              \* the signal object: "alive", "dtor" (in ~signal), "dead"
    rets               \* rets[i]: values returned to the i-th emit in progress

vars == << m_head, m_next, m_prev, m_function, heap, m_recursionDepth,
           m_deactivations, stack, exc, ub, ret, nconn, handle, alive, disc,
           scoped, life, rets >>

ringVars  == << m_head, m_next, m_prev, m_function, heap >>
ghostVars == << nconn, handle, alive, disc >>

\* What the plain connect / disconnect / emit steps do not touch.
progVars  == << scoped, life, rets >>

\* ---- node_base ---------------------------------------------------------
\* The link fields of all nodes: [next |-> ..., prev |-> ...].

\* node_base::node_base(): a new node is linked to itself.
NodeBase(L, node) ==
    [next |-> [L.next EXCEPT ![node] = node],
     prev |-> [L.prev EXCEPT ![node] = node]]

\* Mutant of Insert: the node is linked in right after `this`.
M_InsertAfter(L, this, node) ==
    LET n1 == [L.next EXCEPT ![node] = L.next[this]]
        p1 == [L.prev EXCEPT ![node] = this]
        p2 == [p1 EXCEPT ![n1[this]] = node]
        n2 == [n1 EXCEPT ![this] = node]
    IN  [next |-> n2, prev |-> p2]

\* node_base::insert: this->insert(node), statement by statement.
Insert(L, this, node) ==
    LET p1 == [L.prev EXCEPT ![node] = L.prev[this]]     \* node->m_prev = m_prev
        n1 == [L.next EXCEPT ![node] = this]             \* node->m_next = this
        n2 == [n1 EXCEPT ![p1[this]] = node]             \* m_prev->m_next = node
        p2 == [p1 EXCEPT ![this] = node]                 \* m_prev = node
    IN  [next |-> n2, prev |-> p2]

\* node_base::extract: this->extract(), statement by statement.
Extract(L, this) ==
    LET p1 == [L.prev EXCEPT ![L.next[this]] = L.prev[this]]  \* m_next->m_prev = m_prev
        n1 == [L.next EXCEPT ![p1[this]] = L.next[this]]      \* m_prev->m_next = m_next
    IN  [next |-> [n1 EXCEPT ![this] = Null],                 \* m_prev = m_next = nullptr
         prev |-> [p1 EXCEPT ![this] = Null]]

Links == [next |-> m_next, prev |-> m_prev]

\* ---- ring traversal ----------------------------------------------------
\* The nodes met by following m_next from `node` up to the sentinel.
RECURSIVE Walk(_, _, _, _)
Walk(nx, hd, node, fuel) ==
    IF node = hd \/ node = Null \/ fuel = 0
    THEN << >>
    ELSE << node >> \o Walk(nx, hd, nx[node], fuel - 1)

\* The non-sentinel nodes of the ring, in ring order.
Ring == IF m_head = Null THEN << >>
        ELSE Walk(m_next, m_head, m_next[m_head], NumAddr)

RingSet == { Ring[i] : i \in 1..Len(Ring) }

\* The serial of the node object living at address a (0 if none).
Owner(a) ==
    IF \E s \in alive : handle[s] = a
    THEN CHOOSE s \in alive : handle[s] = a
    ELSE 0

\* Scan loop of signal_base::disconnect(void*): the node at which
\*   while ( node != m_head.get() && node != id ) node = node->next();
\* stops.
RECURSIVE ScanDisconnect(_, _, _)
ScanDisconnect(node, id, fuel) ==
    IF node = m_head \/ node = id \/ fuel = 0
    THEN node
    ELSE ScanDisconnect(m_next[node], id, fuel - 1)

\* Mutant of ScanConnected: a node with an empty function is passed over.
RECURSIVE M_ScanConnectedActiveOnly(_, _, _)
M_ScanConnectedActiveOnly(node, id, fuel) ==
    IF node = m_head \/ fuel = 0 THEN FALSE
    ELSE IF node = id /\ m_function[node] # Null THEN TRUE
    ELSE M_ScanConnectedActiveOnly(m_next[node], id, fuel - 1)

\* Scan loop of signal_base::connected(void*).
RECURSIVE ScanConnected(_, _, _)
ScanConnected(node, id, fuel) ==
    IF node = m_head \/ fuel = 0 THEN FALSE
    ELSE IF node = id THEN TRUE
    ELSE ScanConnected(m_next[node], id, fuel - 1)

\* signal_base::connected(void*): a const query, it changes nothing.
ConnectedId(id) ==
    IF m_head # Null
    THEN ScanConnected(m_next[m_head], id, NumAddr + 1)
    ELSE FALSE

\* signal_base::connected(const connection_handler&).
ConnectedHandler(con) ==
    IF con[1] # This THEN FALSE ELSE ConnectedId(con[2])

\* The slots of the ring's active nodes (serials), in ring order.
ActiveSlots ==
    LET act == SelectSeq(Ring, LAMBDA a : m_function[a] # Null)
    IN  [i \in 1..Len(act) |-> m_function[act[i]]]

\* ---- aggregations and controllers --------------------------------------
\* The data members of an aggregation object before the first slot call:
\* aggregation_last::m_latest{}, aggregation_collation::m_result,
\* aggregation_counter::m_result{}.
\* Mutant of AggregationInit: m_latest is not value-initialised.
M_AggregationInitIndeterminate == [latest |-> 1, vec |-> << >>, count |-> 0]

AggregationInit == [latest |-> 0, vec |-> << >>, count |-> 0]

\* Mutant of Aggregate: the collation inserts at the front of the container.
M_AggregatePrepend(kind, acc, r) ==
    CASE kind = "last"      -> [acc EXCEPT !.latest = r]
      [] kind = "collation" -> [acc EXCEPT !.vec = << r >> \o @]
      [] kind = "counter"   -> [acc EXCEPT !.count = @ + 1]
      [] OTHER              -> acc

\* Mutant of Aggregate: the counter adds up the values of the slots.
M_AggregateCounterAddsValue(kind, acc, r) ==
    CASE kind = "last"      -> [acc EXCEPT !.latest = r]
      [] kind = "collation" -> [acc EXCEPT !.vec = Append(@, r)]
      [] kind = "counter"   -> [acc EXCEPT !.count = @ + r]
      [] OTHER              -> acc

\* Aggregation::aggregate(r) of the aggregation class `kind`.
Aggregate(kind, acc, r) ==
    CASE kind = "last"      -> [acc EXCEPT !.latest = r]
      [] kind = "collation" -> [acc EXCEPT !.vec = Append(@, r)]
      [] kind = "counter"   -> [acc EXCEPT !.count = @ + 1]
      [] OTHER              -> acc                  \* aggregation_void

\* Aggregation::get() of the aggregation class `kind`.
AggregationGet(kind, acc) ==
    CASE kind = "last"      -> [n |-> acc.latest, vec |-> << >>]
      [] kind = "collation" -> [n |-> 0,          vec |-> acc.vec]
      [] kind = "counter"   -> [n |-> acc.count,  vec |-> << >>]
      [] OTHER              -> [n |-> 0,          vec |-> << >>]

\* Integral promotion of the template argument `bool T`.
BoolToInt(b) == IF b THEN 1 ELSE 0

\* condition_all::operator() and condition_while<Result, T>::operator().
Controller(ctrl, result) ==
    IF ctrl.cond = "all" THEN TRUE ELSE result = BoolToInt(ctrl.T)

ConditionAll == [cond |-> "all", T |-> TRUE]
ConditionWhile(T) == [cond |-> "while", T |-> T]

\* Mutant of Invoke: a value the controller stops at is not aggregated.
M_InvokeDropsStoppingValue(fr, result) ==
    [fr EXCEPT !.ok  = Controller(fr.ctrl, result),
               !.acc = IF Controller(fr.ctrl, result)
                       THEN Aggregate(fr.kind, fr.acc, result) ELSE @]

\* ConnectionInvoker<Result(Args...)>::invoke after f(args...) has returned
\* `result`: the controller is asked first, then the value is aggregated.
Invoke(fr, result) ==
    [fr EXCEPT !.ok  = Controller(fr.ctrl, result),
               !.acc = Aggregate(fr.kind, fr.acc, result)]

\* ---- call stack --------------------------------------------------------
Top    == stack[Len(stack)]
Pop    == SubSeq(stack, 1, Len(stack) - 1)
InSlot == stack # << >> /\ Top.phase = "slot"

\* A call of the signal's interface can be made by the program outside of
\* any emission or by the slot that is running.
CanCall == ~ub /\ ~exc /\ (stack = << >> \/ InSlot)

\* Every emission in progress has seen the connections change.
Touch(stk) == [i \in 1..Len(stk) |-> [stk[i] EXCEPT !.changed = TRUE]]

NoResult == [n |-> 0, vec |-> << >>]
Ret(op, b, res) == [op |-> op, b |-> b, res |-> res]

\* ---- operator new ------------------------------------------------------
\* The addresses that have held a node object so far.
Used == (heap \cup {m_head} \cup { handle[s] : s \in 1..nconn }) \ {Null}

\* The addresses `new` may return while the objects at `hp` are alive: any
\* address used before and free now, or an address never used before.  An
\* address is a name only, so the never used address is taken to be the
\* smallest one.
New(hp) ==
    LET fresh == Addr \ (Used \cup hp)
    IN  ((Used \ hp) \cup { a \in fresh : \A b \in fresh : a <= b })

\* ---- signal::connect ---------------------------------------------------
\* connect(slot_type f): the sentinel is created on the first call, then a
\* new node holding f is inserted before the sentinel.
Connect ==
    /\ CanCall
    /\ nconn < MaxConn
    /\ \E hd \in (IF m_head = Null THEN New(heap) ELSE {m_head}) :
       \E a \in New(heap \cup {hd}) :
          LET L0 == IF m_head = Null THEN NodeBase(Links, hd) ELSE Links
              L1 == Insert(NodeBase(L0, a), hd, a)
              s  == nconn + 1
          IN  /\ m_head' = hd
              /\ m_next' = L1.next
              /\ m_prev' = L1.prev
              /\ m_function' = [m_function EXCEPT ![hd] = Null, ![a] = s]
              /\ heap' = heap \cup {hd, a}
              /\ nconn' = s
              /\ handle' = [handle EXCEPT ![s] = a]
              /\ alive' = alive \cup {s}
    /\ stack' = Touch(stack)
    /\ UNCHANGED << m_recursionDepth, m_deactivations, exc, ub, ret, disc >>

\* ---- signal_base::disconnect -------------------------------------------
\* Mutant of Deactivate: the function is left in place.
M_DeactivateKeepsFunction(fn, node) == fn

\* node::deactivate.
Deactivate(fn, node) == [fn EXCEPT ![node] = Null]

\* Mutant of DisconnectId: a deactivation does not set m_deactivations.
M_DisconnectIdNoFlag(id) ==
    LET same == [found |-> FALSE, del |-> FALSE, L |-> Links,
                 fn |-> m_function, hp |-> heap, deact |-> m_deactivations]
    IN  IF m_head = Null THEN same
        ELSE LET node == ScanDisconnect(m_next[m_head], id, NumAddr + 1)
             IN  IF node # id THEN same
                 ELSE IF m_recursionDepth = 0
                 THEN [found |-> TRUE, del |-> TRUE, L |-> Extract(Links, node),
                       fn |-> [m_function EXCEPT ![node] = Null],
                       hp |-> heap \ {node}, deact |-> m_deactivations]
                 ELSE [found |-> TRUE, del |-> FALSE, L |-> Links,
                       fn |-> Deactivate(m_function, node),
                       hp |-> heap, deact |-> m_deactivations]

\* Mutant of DisconnectId: a node with an empty function is not found.
M_DisconnectIdIgnoresDeactivated(id) ==
    LET same == [found |-> FALSE, del |-> FALSE, L |-> Links,
                 fn |-> m_function, hp |-> heap, deact |-> m_deactivations]
    IN  IF m_head = Null THEN same
        ELSE LET node == ScanDisconnect(m_next[m_head], id, NumAddr + 1)
             IN  IF node # id \/ m_function[node] = Null THEN same
                 ELSE IF m_recursionDepth = 0
                 THEN [found |-> TRUE, del |-> TRUE, L |-> Extract(Links, node),
                       fn |-> [m_function EXCEPT ![node] = Null],
                       hp |-> heap \ {node}, deact |-> m_deactivations]
                 ELSE [found |-> TRUE, del |-> FALSE, L |-> Links,
                       fn |-> Deactivate(m_function, node),
                       hp |-> heap, deact |-> TRUE]

\* Mutant of DisconnectId: the node is deleted whatever the counter is.
M_DisconnectIdAlwaysDeletes(id) ==
    LET same == [found |-> FALSE, del |-> FALSE, L |-> Links,
                 fn |-> m_function, hp |-> heap, deact |-> m_deactivations]
    IN  IF m_head = Null THEN same
        ELSE LET node == ScanDisconnect(m_next[m_head], id, NumAddr + 1)
             IN  IF node # id THEN same
                 ELSE [found |-> TRUE, del |-> TRUE, L |-> Extract(Links, node),
                       fn |-> [m_function EXCEPT ![node] = Null],
                       hp |-> heap \ {node}, deact |-> m_deactivations]

\* signal_base::disconnect(void* id): the return value and the new ring.
DisconnectId(id) ==
    LET same == [found |-> FALSE, del |-> FALSE, L |-> Links,
                 fn |-> m_function, hp |-> heap, deact |-> m_deactivations]
    IN  IF m_head = Null THEN same
        ELSE LET node == ScanDisconnect(m_next[m_head], id, NumAddr + 1)
             IN  IF node # id THEN same
                 ELSE IF m_recursionDepth = 0
                 THEN \* delete node->extract();
                      [found |-> TRUE, del |-> TRUE, L |-> Extract(Links, node),
                       fn |-> [m_function EXCEPT ![node] = Null],
                       hp |-> heap \ {node}, deact |-> m_deactivations]
                 ELSE \* node->deactivate(); m_deactivations = true;
                      [found |-> TRUE, del |-> FALSE, L |-> Links,
                       fn |-> Deactivate(m_function, node),
                       hp |-> heap, deact |-> TRUE]

\* Mutant of DisconnectHandler: the signal of the handle is not compared.
M_DisconnectHandlerAnySignal(con) == DisconnectId(con[2])

\* signal_base::disconnect(const connection_handler& con).
DisconnectHandler(con) ==
    IF con[1] # This
    THEN [found |-> FALSE, del |-> FALSE, L |-> Links,
          fn |-> m_function, hp |-> heap, deact |-> m_deactivations]
    ELSE DisconnectId(con[2])

Disconnect(con) ==
    /\ CanCall
    /\ UNCHANGED << m_head, m_recursionDepth, exc, nconn, handle >>
    /\ LET r == DisconnectHandler(con)
           s == Owner(con[2])
       IN  /\ ret' = Ret("disconnect", r.found, NoResult)
           /\ stack' = IF r.found THEN Touch(stack) ELSE stack
           /\ m_next' = r.L.next
           /\ m_prev' = r.L.prev
           /\ m_function' = r.fn
           /\ heap' = r.hp
           /\ m_deactivations' = r.deact
           /\ ub' = (ub \/ (r.del /\ con[2] = m_head))
           /\ disc' = IF r.found /\ s # 0 THEN disc \cup {s} ELSE disc
           /\ alive' = IF r.del THEN alive \ {s} ELSE alive

\* Mutant of SweepFrom: the sweep ends at the first node it removes.
RECURSIVE M_SweepFromStopsAtFirst(_, _, _, _, _)
M_SweepFromStopsAtFirst(L, fn, hp, node, fuel) ==
    IF node = m_head \/ fuel = 0
    THEN [L |-> L, fn |-> fn, hp |-> hp]
    ELSE IF fn[node] = Null
         THEN [L |-> Extract(L, node), fn |-> fn, hp |-> hp \ {node}]
         ELSE M_SweepFromStopsAtFirst(L, fn, hp, L.next[node], fuel - 1)

\* The sweep at the end of the outermost emit: every node with an empty
\* function is extracted and deleted.
RECURSIVE SweepFrom(_, _, _, _, _)
SweepFrom(L, fn, hp, node, fuel) ==
    IF node = m_head \/ fuel = 0
    THEN [L |-> L, fn |-> fn, hp |-> hp]
    ELSE LET next == L.next[node]
         IN  IF fn[node] = Null
             THEN SweepFrom(Extract(L, node), fn, hp \ {node}, next, fuel - 1)
             ELSE SweepFrom(L, fn, hp, next, fuel - 1)

\* if ( m_recursionDepth == 0 && m_deactivations )
SweepDue == m_recursionDepth = 0 /\ m_deactivations

\* The ring after the walk of an emit call.
AfterWalk ==
    IF SweepDue
    THEN SweepFrom(Links, m_function, heap, m_next[m_head], NumAddr + 1)
    ELSE [L |-> Links, fn |-> m_function, hp |-> heap]

\* Mutant of Frame: a nested emit goes on with the aggregation object of the
\* enclosing one.
M_FrameSharesAggregation(kind, ctrl) ==
    [node    |-> m_next[m_head],
     ok      |-> TRUE,
     phase   |-> "loop",
     kind    |-> kind,
     acc     |-> IF stack = << >> THEN AggregationInit ELSE Top.acc,
     ctrl    |-> ctrl,
     called  |-> << >>,
     base    |-> nconn,
     changed |-> FALSE]

\* Mutant of Frame: a nested emit goes on from the cursor of the enclosing one.
M_FrameFromCursor(kind, ctrl) ==
    [node    |-> IF stack = << >> THEN m_next[m_head] ELSE m_next[Top.node],
     ok      |-> TRUE,
     phase   |-> "loop",
     kind    |-> kind,
     acc     |-> AggregationInit,
     ctrl    |-> ctrl,
     called  |-> << >>,
     base    |-> nconn,
     changed |-> FALSE]

\* The activation record of a new emit call.
Frame(kind, ctrl) ==
    [node    |-> m_next[m_head],   \* the cursor `node`
     ok      |-> TRUE,             \* the loop variable `ok`
     phase   |-> "loop",           \* "loop": at the loop test; "slot": in f(args...)
     kind    |-> kind,             \* the Aggregation class
     acc     |-> AggregationInit,  \* the aggregation object
     ctrl    |-> ctrl,             \* the Controller object
     called  |-> << >>,            \* slots invoked by this call, in order
     base    |-> nconn,            \* connect calls made before the call started
     changed |-> FALSE]            \* a connect or disconnect happened since

\* emit is called.  Without a ring it returns aggregation.get() at once.
EmitCall(kind, ctrl) ==
    /\ CanCall
    /\ Len(stack) < MaxDepth
    /\ IF m_head = Null
       THEN /\ ret' = Ret("emit", TRUE, AggregationGet(kind, AggregationInit))
            /\ stack' = stack
       ELSE /\ stack' = Append(stack, Frame(kind, ctrl))
            /\ ret' = ret
    /\ UNCHANGED << ringVars, m_recursionDepth, m_deactivations, exc, ub,
                    ghostVars >>

AtLoop == ~ub /\ ~exc /\ stack # << >> /\ Top.phase = "loop"

\* The loop test `node != m_head.get() && ok`.
LoopTest(fr) == fr.node # m_head /\ fr.ok

\* One iteration over a node whose function is empty: the counter is
\* incremented, the node is skipped, the cursor moves on and the counter is
\* decremented again.
SkipNode ==
    /\ AtLoop
    /\ LoopTest(Top)
    /\ m_function[Top.node] = Null
    /\ stack' = [stack EXCEPT ![Len(stack)].node = m_next[Top.node]]
    /\ UNCHANGED << ringVars, m_recursionDepth, m_deactivations, exc, ub, ret,
                    ghostVars >>

\* One iteration over an active node, up to the call of its function: the
\* counter is incremented and the slot starts to run.
CallSlot ==
    /\ AtLoop
    /\ LoopTest(Top)
    /\ m_function[Top.node] # Null
    /\ m_recursionDepth' = m_recursionDepth + 1
    /\ stack' = [stack EXCEPT ![Len(stack)].phase = "slot",
                              ![Len(stack)].called = Append(@, m_function[Top.node])]
    /\ UNCHANGED << ringVars, m_deactivations, exc, ub, ret, ghostVars >>

\* SlotReturn without `node = node->next()`.
M_SlotReturnKeepsCursor(result) ==
    /\ ~ub /\ ~exc
    /\ InSlot
    /\ stack' = [stack EXCEPT ![Len(stack)] =
                    [Invoke(Top, result) EXCEPT !.phase = "loop"]]
    /\ m_recursionDepth' = m_recursionDepth - 1
    /\ UNCHANGED << ringVars, m_deactivations, exc, ub, ret, ghostVars >>

\* The running slot returns `result`: the rest of the iteration.
SlotReturn(result) ==
    /\ ~ub /\ ~exc
    /\ InSlot
    /\ stack' = [stack EXCEPT ![Len(stack)] =
                    [Invoke(Top, result) EXCEPT !.node  = m_next[Top.node],
                                                !.phase = "loop"]]
    /\ m_recursionDepth' = m_recursionDepth - 1       \* ~ScopedIncrement
    /\ UNCHANGED << ringVars, m_deactivations, exc, ub, ret, ghostVars >>

\* The loop has ended: the sweep if it is due, then return aggregation.get().
EmitReturn ==
    /\ AtLoop
    /\ ~LoopTest(Top)
    /\ LET r == AfterWalk
       IN  /\ m_next' = r.L.next
           /\ m_prev' = r.L.prev
           /\ m_function' = r.fn
           /\ heap' = r.hp
           /\ alive' = { s \in alive : handle[s] \in r.hp }
    /\ m_deactivations' = IF SweepDue THEN FALSE ELSE m_deactivations
    /\ ret' = Ret("emit", TRUE, AggregationGet(Top.kind, Top.acc))
    /\ stack' = Pop
    /\ UNCHANGED << m_head, m_recursionDepth, exc, ub, nconn, handle, disc >>

\* The running slot throws.
SlotThrow ==
    /\ ~ub /\ ~exc
    /\ InSlot
    /\ exc' = TRUE
    /\ UNCHANGED << ringVars, m_recursionDepth, m_deactivations, stack, ub,
                    ret, ghostVars >>

\* Mutant of Unwind: the counter is not decremented when an exception leaves
\* the loop body.
M_UnwindKeepsCounter ==
    /\ ~ub /\ exc
    /\ stack # << >>
    /\ m_recursionDepth' = m_recursionDepth
    /\ stack' = Pop
    /\ exc' = (Len(stack) > 1)
    /\ ret' = IF Len(stack) > 1 THEN ret ELSE Ret("throw", FALSE, NoResult)
    /\ UNCHANGED << ringVars, m_deactivations, ub, ghostVars >>

\* The exception leaves the innermost emit call in progress: its
\* ScopedIncrement is destroyed and the rest of emit is not executed.  It then
\* is in the slot that called this emit, or in the program.
Unwind ==
    /\ ~ub /\ exc
    /\ stack # << >>
    /\ m_recursionDepth' = m_recursionDepth - 1       \* ~ScopedIncrement
    /\ stack' = Pop
    /\ exc' = (Len(stack) > 1)
    /\ ret' = IF Len(stack) > 1 THEN ret ELSE Ret("throw", FALSE, NoResult)
    /\ UNCHANGED << ringVars, m_deactivations, ub, ghostVars >>

\* ---- specification -----------------------------------------------------
Handlers == Sigs \X (Addr \cup {Null})

\* The handle returned by the s-th connect call.
Handler(s) == << This, handle[s] >>

\* The scoped_connection objects a program makes of the handle of the s-th
\* connect call: the object initialised with the handle, and a copy of it.
ScopedObjs == (1..MaxConn) \X {"orig", "copy"}

Init ==
    /\ m_head = Null
    /\ m_next = [a \in Addr |-> Null]
    /\ m_prev = [a \in Addr |-> Null]
    /\ m_function = [a \in Addr |-> Null]
    /\ heap = {}
    /\ m_recursionDepth = 0
    /\ m_deactivations = FALSE
    /\ stack = << >>
    /\ exc = FALSE
    /\ ub = FALSE
    /\ ret = Ret("none", FALSE, NoResult)
    /\ nconn = 0
    /\ handle = [s \in 1..MaxConn |-> Null]
    /\ alive = {}
    /\ disc = {}
    /\ scoped = [o \in ScopedObjs |-> "none"]
    /\ life = "alive"
    /\ rets = << >>

Next ==
    \/ Connect /\ UNCHANGED progVars
    \/ \E con \in Handlers : Disconnect(con) /\ UNCHANGED progVars
    \/ \E ctrl \in {ConditionAll, ConditionWhile(TRUE)} :
          EmitCall("counter", ctrl) /\ UNCHANGED progVars
    \/ SkipNode /\ UNCHANGED progVars
    \/ CallSlot /\ UNCHANGED progVars
    \/ \E result \in Values : SlotReturn(result) /\ UNCHANGED progVars
    \/ EmitReturn /\ UNCHANGED progVars
    \/ SlotThrow /\ UNCHANGED progVars
    \/ Unwind /\ UNCHANGED progVars

Spec == Init /\ [][Next]_vars

\* ---- scoped_connection -------------------------------------------------
\* scoped_connection::scoped_connection(connection_handler con), with the
\* handle the s-th connect call returned.
ScopedCtor(s) ==
    /\ CanCall
    /\ s \in 1..nconn
    /\ scoped[<< s, "orig" >>] = "none"
    /\ scoped' = [scoped EXCEPT ![<< s, "orig" >>] = "live"]
    /\ UNCHANGED << ringVars, m_recursionDepth, m_deactivations, stack, exc,
                    ub, ret, ghostVars, life, rets >>

\* The implicit copy constructor: the copy holds the same handle.
ScopedCopy(s) ==
    /\ CanCall
    /\ scoped[<< s, "orig" >>] = "live"
    /\ scoped[<< s, "copy" >>] = "none"
    /\ scoped' = [scoped EXCEPT ![<< s, "copy" >>] = "live"]
    /\ UNCHANGED << ringVars, m_recursionDepth, m_deactivations, stack, exc,
                    ub, ret, ghostVars, life, rets >>

\* Mutant of ScopedDtor: the destructor does not disconnect.
M_ScopedDtorKeepsConnection(o) ==
    /\ CanCall
    /\ scoped[o] = "live"
    /\ scoped' = [scoped EXCEPT ![o] = "gone"]
    /\ UNCHANGED << ringVars, m_recursionDepth, m_deactivations, stack, exc,
                    ub, ret, ghostVars, life, rets >>

\* scoped_connection::~scoped_connection: disconnect() on the signal of the
\* handle, with the node identity of the handle; the result is dropped.
ScopedDtor(o) ==
    /\ scoped[o] = "live"
    /\ Disconnect(Handler(o[1]))
    /\ scoped' = [scoped EXCEPT ![o] = "gone"]
    /\ UNCHANGED << life, rets >>

\* A program that keeps connections in scoped_connection objects and also
\* disconnects with the handles; its slots return normally.
NextScoped ==
    \/ Connect /\ UNCHANGED progVars
    \/ \E s \in 1..nconn : Disconnect(Handler(s)) /\ UNCHANGED progVars
    \/ \E s \in 1..MaxConn : ScopedCtor(s)
    \/ \E s \in 1..MaxConn : ScopedCopy(s)
    \/ \E o \in ScopedObjs : ScopedDtor(o)
    \/ stack = << >> /\ EmitCall("counter", ConditionAll) /\ UNCHANGED progVars
    \/ SkipNode /\ UNCHANGED progVars
    \/ CallSlot /\ UNCHANGED progVars
    \/ \E result \in Values : SlotReturn(result) /\ UNCHANGED progVars
    \/ EmitReturn /\ UNCHANGED progVars

SpecScoped == Init /\ [][NextScoped]_vars

\* ---- emissions with the return values on record -------------------------
\* The values a slot of the signal<int (...)> under study returns: false,
\* true, and a value that is neither.
AggValues == {0, 1, 2}

\* The aggregation and controller classes emit is instantiated with.
Instantiations ==
    { << "collation", ConditionAll >>,
      << "last", ConditionAll >>,
      << "last", ConditionWhile(TRUE) >>,
      << "last", ConditionWhile(FALSE) >> }

\* emit is called by the program; the record of the new call is empty.
RecEmitCall(kind, ctrl) ==
    /\ stack = << >>
    /\ EmitCall(kind, ctrl)
    /\ rets' = IF m_head = Null THEN rets ELSE Append(rets, << >>)
    /\ UNCHANGED << scoped, life >>

\* The running slot returns `result` to the innermost emit call.
RecSlotReturn(result) ==
    /\ SlotReturn(result)
    /\ rets' = [rets EXCEPT ![Len(rets)] = Append(@, result)]
    /\ UNCHANGED << scoped, life >>

RecEmitReturn ==
    /\ EmitReturn
    /\ rets' = SubSeq(rets, 1, Len(rets) - 1)
    /\ UNCHANGED << scoped, life >>

RecUnwind ==
    /\ Unwind
    /\ rets' = SubSeq(rets, 1, Len(rets) - 1)
    /\ UNCHANGED << scoped, life >>

\* A program that emits with the aggregations and controllers above; its
\* slots connect, disconnect, return any value or throw.
NextAgg ==
    \/ Connect /\ UNCHANGED progVars
    \/ \E s \in 1..nconn : Disconnect(Handler(s)) /\ UNCHANGED progVars
    \/ \E inst \in Instantiations : RecEmitCall(inst[1], inst[2])
    \/ SkipNode /\ UNCHANGED progVars
    \/ CallSlot /\ UNCHANGED progVars
    \/ \E result \in AggValues : RecSlotReturn(result)
    \/ RecEmitReturn
    \/ SlotThrow /\ UNCHANGED progVars
    \/ RecUnwind

SpecAgg == Init /\ [][NextAgg]_vars

\* ---- connect through a null receiver pointer ---------------------------
\* connection_handler{}: both members are null pointers.
NullHandler == << "nullptr", Null >>

\* Mutant of ConnectNull: the sentinel is created before the pointer is
\* tested.
M_ConnectNullCreatesRing ==
    /\ CanCall
    /\ ret' = Ret("connect", FALSE, NoResult)
    /\ \E hd \in (IF m_head = Null THEN New(heap) ELSE {m_head}) :
          LET L0 == IF m_head = Null THEN NodeBase(Links, hd) ELSE Links
          IN  /\ m_head' = hd
              /\ m_next' = L0.next
              /\ m_prev' = L0.prev
              /\ heap' = heap \cup {hd}
    /\ UNCHANGED << m_function, m_recursionDepth, m_deactivations, stack, exc,
                    ub, ghostVars, progVars >>

\* connect(C* obj, mf) with obj == nullptr: returns connection_handler{}.
ConnectNull ==
    /\ CanCall
    /\ ret' = Ret("connect", FALSE, NoResult)
    /\ UNCHANGED << ringVars, m_recursionDepth, m_deactivations, stack, exc,
                    ub, ghostVars, progVars >>

\* A program that also connects through null receiver pointers and uses the
\* handles it gets from that.
NextNull ==
    \/ Next
    \/ ConnectNull
    \/ Disconnect(NullHandler) /\ UNCHANGED progVars

SpecNull == Init /\ [][NextNull]_vars

\* ---- signal::~signal -----------------------------------------------------
\* The program destroys the signal, outside of any emission.
DtorBegin ==
    /\ life = "alive"
    /\ ~ub /\ ~exc /\ stack = << >>
    /\ life' = "dtor"
    /\ UNCHANGED << ringVars, m_recursionDepth, m_deactivations, stack, exc,
                    ub, ret, ghostVars, scoped, rets >>

\* The loop test of ~signal:
\*   m_head && static_cast<node_type*>(m_head.get())->next() != m_head.get()
DtorLoopTest == m_head # Null /\ m_next[m_head] # m_head

\* One iteration of the loop: disconnect(m_head->next()).
DtorStep ==
    /\ life = "dtor"
    /\ DtorLoopTest
    /\ Disconnect(<< This, m_next[m_head] >>)
    /\ UNCHANGED progVars

\* The loop has ended; the members are destroyed, and the deleter of m_head
\* deletes the sentinel.
DtorEnd ==
    /\ life = "dtor"
    /\ ~DtorLoopTest
    /\ life' = "dead"
    /\ m_head' = Null
    /\ heap' = heap \ {m_head}
    /\ UNCHANGED << m_next, m_prev, m_function, m_recursionDepth,
                    m_deactivations, stack, exc, ub, ret, ghostVars, scoped,
                    rets >>

\* A program that uses the signal, with slots that disconnect and throw, and
\* destroys it in the end.
NextDestroy ==
    \/ life = "alive" /\ Connect /\ UNCHANGED progVars
    \/ \E s \in 1..nconn :
          life = "alive" /\ Disconnect(Handler(s)) /\ UNCHANGED progVars
    \/ /\ life = "alive" /\ stack = << >>
       /\ EmitCall("counter", ConditionAll) /\ UNCHANGED progVars
    \/ SkipNode /\ UNCHANGED progVars
    \/ CallSlot /\ UNCHANGED progVars
    \/ \E result \in Values : SlotReturn(result) /\ UNCHANGED progVars
    \/ EmitReturn /\ UNCHANGED progVars
    \/ SlotThrow /\ UNCHANGED progVars
    \/ Unwind /\ UNCHANGED progVars
    \/ DtorBegin
    \/ DtorStep
    \/ DtorEnd

\* The destructor is sequential code: once entered it runs on.
SpecDestroy ==
    Init /\ [][NextDestroy]_vars /\ WF_vars(DtorStep) /\ WF_vars(DtorEnd)

\* ---- connect with an empty std::function --------------------------------
\* connect(slot_type f) with an f that holds no target: the node is created
\* and inserted like any other, and its function is empty.
ConnectEmpty ==
    /\ CanCall
    /\ nconn < MaxConn
    /\ \E hd \in (IF m_head = Null THEN New(heap) ELSE {m_head}) :
       \E a \in New(heap \cup {hd}) :
          LET L0 == IF m_head = Null THEN NodeBase(Links, hd) ELSE Links
              L1 == Insert(NodeBase(L0, a), hd, a)
              s  == nconn + 1
          IN  /\ m_head' = hd
              /\ m_next' = L1.next
              /\ m_prev' = L1.prev
              /\ m_function' = [m_function EXCEPT ![hd] = Null, ![a] = Null]
              /\ heap' = heap \cup {hd, a}
              /\ nconn' = s
              /\ handle' = [handle EXCEPT ![s] = a]
              /\ alive' = alive \cup {s}
    /\ stack' = Touch(stack)
    /\ UNCHANGED << m_recursionDepth, m_deactivations, exc, ub, ret, disc,
                    progVars >>

\* A program that also connects empty functions; it emits outside of slots.
NextEmpty ==
    \/ Connect /\ UNCHANGED progVars
    \/ ConnectEmpty
    \/ \E s \in 1..nconn : Disconnect(Handler(s)) /\ UNCHANGED progVars
    \/ stack = << >> /\ EmitCall("counter", ConditionAll) /\ UNCHANGED progVars
    \/ SkipNode /\ UNCHANGED progVars
    \/ CallSlot /\ UNCHANGED progVars
    \/ \E result \in Values : SlotReturn(result) /\ UNCHANGED progVars
    \/ EmitReturn /\ UNCHANGED progVars

SpecEmpty == Init /\ [][NextEmpty]_vars

\* ---- emissions whose slots neither connect nor emit --------------------
\* A program that connects and emits outside of emissions only; its slots
\* disconnect, return or throw.  The loop of emit is sequential code, so
\* each of its steps is taken once it can be, and a slot that has been
\* called comes to an end.
NextWalk ==
    \/ stack = << >> /\ Connect /\ UNCHANGED progVars
    \/ \E con \in Handlers : Disconnect(con) /\ UNCHANGED progVars
    \/ \E ctrl \in {ConditionAll, ConditionWhile(TRUE)} :
          stack = << >> /\ EmitCall("counter", ctrl) /\ UNCHANGED progVars
    \/ SkipNode /\ UNCHANGED progVars
    \/ CallSlot /\ UNCHANGED progVars
    \/ \E result \in Values : SlotReturn(result) /\ UNCHANGED progVars
    \/ EmitReturn /\ UNCHANGED progVars
    \/ SlotThrow /\ UNCHANGED progVars
    \/ Unwind /\ UNCHANGED progVars

\* A step of the emit call in progress: an iteration of its loop, the return
\* of the slot it called, its own return, or its unwinding.
WalkStep ==
    /\ \/ SkipNode
       \/ CallSlot
       \/ \E result \in Values : SlotReturn(result)
       \/ EmitReturn
       \/ Unwind
    /\ UNCHANGED progVars

SpecWalk == Init /\ [][NextWalk]_vars /\ WF_vars(WalkStep)

\* ---- nested emissions with the return values on record ------------------
\* emit is called by the program or by a running slot.
NestedEmitCall(kind, ctrl) ==
    /\ EmitCall(kind, ctrl)
    /\ rets' = IF m_head = Null THEN rets ELSE Append(rets, << >>)
    /\ UNCHANGED << scoped, life >>

\* A program whose slots connect, disconnect and emit the signal again, with
\* the collation aggregation and either controller; the slots return normally.
NextNested ==
    \/ Connect /\ UNCHANGED progVars
    \/ \E s \in 1..nconn : Disconnect(Handler(s)) /\ UNCHANGED progVars
    \/ \E ctrl \in {ConditionAll, ConditionWhile(TRUE)} :
          NestedEmitCall("collation", ctrl)
    \/ SkipNode /\ UNCHANGED progVars
    \/ CallSlot /\ UNCHANGED progVars
    \/ \E result \in Values : RecSlotReturn(result)
    \/ RecEmitReturn

SpecNested == Init /\ [][NextNested]_vars

TypeOK ==
    /\ m_head \in Addr \cup {Null}
    /\ heap \subseteq Addr
    /\ m_recursionDepth \in 0..MaxDepth
    /\ nconn \in 0..MaxConn

\* ---- auxiliary definitions for the properties ---------------------------
Range(seq) == { seq[i] : i \in 1..Len(seq) }

Last(seq) == seq[Len(seq)]

\* The elements of a set of numbers in ascending order.
RECURSIVE Ascending(_)
Ascending(S) ==
    IF S = {} THEN << >>
    ELSE LET m == CHOOSE x \in S : \A y \in S : x <= y
         IN  << m >> \o Ascending(S \ {m})

\* The place of a node in the ring: 1 for the sentinel's successor, and one
\* more than the number of nodes for the sentinel.
PosIn(r, a) ==
    IF \E i \in 1..Len(r) : r[i] = a THEN CHOOSE i \in 1..Len(r) : r[i] = a
    ELSE Len(r) + 1

Pos(a) == PosIn(Ring, a)

\* The slots that are connected: registered and not disconnected since.
ConnectedSlots == (1..nconn) \ disc

\* The top activation record is at the end of its walk.
WalkOver == AtLoop /\ ~LoopTest(Top)

\* The top activation record has walked to the end of the ring.
AtRingEnd == AtLoop /\ Top.node = m_head

\* C1: an emit during which no connection changes, with the default
\* controller, has at the end of its walk invoked every connected slot exactly
\* once, in the order of the connect calls.
C1_RegistrationOrder ==
    (AtRingEnd /\ Top.ctrl = ConditionAll /\ ~Top.changed)
        => Top.called = Ascending(ConnectedSlots)

\* C1 witness: two slots were invoked in the order of their connection by an
\* emit during which nothing changed.
C1_Witness ==
    /\ AtRingEnd /\ Top.ctrl = ConditionAll /\ ~Top.changed
    /\ Top.called = << 1, 2 >>

\* No node disconnected inside an emission is waiting for the sweep, and the
\* program is outside of any emission.
Quiescent == ~ub /\ stack = << >> /\ alive \cap disc = {}

\* C2: outside of emissions, connected(h) is true exactly when the node that
\* connect created for h is still in the ring, that is from the connect until
\* the first successful disconnect(h) and false from then on.
C2_ConnectedReflectsRing ==
    Quiescent =>
        \A s \in 1..nconn :
            /\ ConnectedHandler(Handler(s)) = (s \in alive)
            /\ (s \in alive) = (s \notin disc)

\* C3: a slot is never invoked after a disconnect of its connection has
\* returned true: every invocation a step adds to an emission is one of a slot
\* that is not disconnected.
C3_NoInvocationAfterDisconnect ==
    [][ \A i \in 1..Len(stack') :
            (i <= Len(stack) /\ Len(stack'[i].called) > Len(stack[i].called))
                => Last(stack'[i].called) \notin disc ]_vars

\* C3 witness: an emission has walked to the end of the ring past the node of
\* a disconnected slot, which it did not invoke, and has invoked another slot.
C3_Witness ==
    /\ AtRingEnd
    /\ Top.called # << >>
    /\ \E s \in disc \cap alive : handle[s] \in RingSet /\ s \notin Range(Top.called)

\* The slots connected since the emit call of activation record fr started.
ConnectedDuring(fr) == (fr.base + 1)..nconn

\* C4 (as stated): a slot connected during an emission is invoked in that
\* emission whenever the pass runs on to the end of the ring.
C4_ConnectedDuringIsInvoked ==
    AtRingEnd => \A s \in ConnectedDuring(Top) : s \in Range(Top.called)

\* C4 (amended): a slot connected by a slot during an emission is placed
\* before the sentinel, ahead of the cursor of every emission in progress, and
\* when a pass runs on to the end of the ring it has invoked that slot unless
\* the slot was disconnected before the cursor reached it.
C4_ConnectedDuringIsInvokedUnlessDisconnected ==
    LET r == Ring
    IN  /\ (stack # << >> /\ ConnectedDuring(stack[1]) # {})
             => m_prev[m_head] = handle[nconn]
        /\ \A i \in 1..Len(stack) :
             \A s \in ConnectedDuring(stack[i]) :
                /\ handle[s] \in Range(r)
                /\ \/ s \in Range(stack[i].called)
                   \/ s \in disc
                   \/ PosIn(r, handle[s]) > PosIn(r, stack[i].node)
                   \/ stack[i].phase = "loop" /\ handle[s] = stack[i].node

\* C4 witness: a pass that ran on to the end of the ring has invoked a slot
\* that was connected while it was in progress.
C4_Witness ==
    /\ AtRingEnd
    /\ \E s \in ConnectedDuring(Top) : s \in Range(Top.called)

\* C5: a nested emission walks the whole ring from the first node while the
\* enclosing pass waits inside the slot that called it, at that slot's node;
\* in every pass the invocations follow the ring order up to the cursor, and
\* no active slot behind the cursor was left out.
C5_NestedEmissionWalksWholeRing ==
    LET r == Ring
    IN  \A i \in 1..Len(stack) :
          LET fr  == stack[i]
              cur == PosIn(r, fr.node)
          IN  /\ i < Len(stack) => fr.phase = "slot"
              /\ fr.phase = "slot" =>
                    /\ cur <= Len(r)
                    /\ fr.called # << >>
                    /\ handle[Last(fr.called)] = fr.node
              /\ fr.phase = "loop" =>
                    \A k \in 1..Len(fr.called) :
                        PosIn(r, handle[fr.called[k]]) < cur
              /\ \A k \in 1..(Len(fr.called) - 1) :
                    PosIn(r, handle[fr.called[k]]) < PosIn(r, handle[fr.called[k + 1]])
              /\ \A k \in 1..(cur - 1) :
                    m_function[r[k]] # Null => m_function[r[k]] \in Range(fr.called)

\* C5 witness: a nested emission has walked to the end of the ring and invoked
\* both slots while the enclosing pass waits in the slot of the first node,
\* after a disconnect was made inside the emission.
C5_Witness ==
    /\ Len(stack) = 2
    /\ AtRingEnd
    /\ Len(Top.called) = 2
    /\ stack[1].phase = "slot" /\ stack[1].node = Ring[1]
    /\ disc # {}

\* The nodes of the ring whose function is empty.
EmptyNodes == { a \in RingSet : m_function[a] = Null }

\* C6: while an emission is in progress no node leaves the ring, so no nested
\* emit sweeps; when the outermost emit returns normally with the
\* deferred-deactivation flag set, the ring is left without a node with an
\* empty function and the flag is false.
C6_SweepOnlyAtOutermostReturn ==
    [][ /\ (stack # << >> /\ stack' # << >>) =>
              /\ UNCHANGED << m_next, m_head >> \/ RingSet \subseteq RingSet'
              /\ m_deactivations => m_deactivations'
        /\ (Len(stack) = 1 /\ stack' = << >> /\ ~exc /\ m_deactivations) =>
              /\ EmptyNodes' = {}
              /\ ~m_deactivations' ]_vars

\* C6 witness: the outermost emit has returned after invoking a slot, and the
\* ring is empty: the nodes disconnected during the emission were swept.
C6_Witness ==
    /\ stack = << >>
    /\ ret.op = "emit" /\ ret.res.n >= 1
    /\ m_head # Null /\ Ring = << >>
    /\ disc # {}
    /\ ~m_deactivations

\* C7: a disconnect of a node of the ring made while the reentrancy counter is
\* not zero returns true, empties that node's function, sets the
\* deferred-deactivation flag and changes nothing else.
C7_DeactivationFrame ==
    [][ \A con \in Handlers :
            (/\ Disconnect(con)
             /\ m_recursionDepth # 0
             /\ con[1] = This
             /\ con[2] \in RingSet)
            => /\ ret'.op = "disconnect" /\ ret'.b
               /\ m_function' = [m_function EXCEPT ![con[2]] = Null]
               /\ m_deactivations'
               /\ Ring' = Ring
               /\ UNCHANGED << m_head, m_next, m_prev, heap, m_recursionDepth,
                               exc, ub >> ]_vars

\* C7 witness: a running slot has got true from a disconnect, and the node is
\* in the ring with an empty function.
C7_Witness ==
    /\ InSlot
    /\ ret.op = "disconnect" /\ ret.b
    /\ m_deactivations
    /\ EmptyNodes # {}

\* C8: while an error raised by a slot propagates, each step takes it out of
\* the innermost emit call in progress without invoking a slot and without
\* touching the enclosing calls; it reaches the program, and the reentrancy
\* counter is then 0.
C8_ErrorPropagates ==
    [][ exc =>
          /\ stack # << >>
          /\ stack' = Pop
          /\ UNCHANGED ringVars
          /\ IF stack' = << >>
             THEN ~exc' /\ ret'.op = "throw" /\ m_recursionDepth' = 0
             ELSE exc' /\ ret' = ret ]_vars

\* C8 witness: an error raised by a slot has reached the program; the aborted
\* emission left a deactivated node in the ring, and the counter is 0.
C8_Witness ==
    /\ stack = << >>
    /\ ret.op = "throw"
    /\ m_recursionDepth = 0
    /\ m_deactivations
    /\ EmptyNodes # {}

\* C9: the emit that follows an emission aborted by an error, when no
\* connection changes during it, invokes the slots that are still active in
\* ring order and none of the deactivated ones, and when it returns the
\* pending deactivated nodes are removed and the flag is false.
C9_EmitAfterAbort ==
    [][ (/\ ret.op = "throw"
         /\ Len(stack) = 1 /\ stack' = << >> /\ ~exc
         /\ Top.ctrl = ConditionAll /\ ~Top.changed)
        => /\ Top.called = ActiveSlots
           /\ Range(Top.called) \cap disc = {}
           /\ ret'.op = "emit"
           /\ EmptyNodes' = {}
           /\ ~m_deactivations'
           /\ ActiveSlots' = ActiveSlots
           /\ m_recursionDepth' = 0 ]_vars

\* C9 witness: the emit after an aborted emission is at the end of its walk:
\* it has invoked the active slot and skipped a deactivated node that is still
\* in the ring.
C9_Witness ==
    /\ ret.op = "throw"
    /\ Len(stack) = 1 /\ AtRingEnd
    /\ Top.ctrl = ConditionAll /\ ~Top.changed
    /\ Top.called # << >>
    /\ EmptyNodes # {}

\* The identity is the address of a node of the ring, the sentinel included.
InRing(id) == m_head # Null /\ id \in RingSet \cup {m_head}

\* C10: a disconnect with a handle of another signal, or with an identity that
\* is no node of this signal's ring, returns false and leaves the signal as it
\* was.
C10_DisconnectUnknownHandle ==
    [][ \A con \in Handlers :
            (/\ Disconnect(con)
             /\ (con[1] # This \/ ~InRing(con[2])))
            => /\ ret'.op = "disconnect" /\ ~ret'.b
               /\ UNCHANGED << ringVars, m_recursionDepth, m_deactivations,
                               stack, exc, ub >> ]_vars

\* C10 witness: a disconnect made by a running slot has returned false on a
\* signal that has a connected slot.
C10_Witness ==
    /\ InSlot
    /\ ret.op = "disconnect" /\ ~ret.b
    /\ ActiveSlots # << >>

\* The address of the handle of slot s was returned by no other connect call.
Unaliased(s) == \A t \in 1..nconn : handle[t] = handle[s] => t = s

\* C11: a disconnect with a handle for which an earlier disconnect has
\* returned true returns false, inside and outside of emissions.  It is
\* stated for the handles whose address no other connection has had, so that
\* the handle names one connection only.
C11_DisconnectSucceedsOnce ==
    [][ \A con \in Handlers :
            (/\ Disconnect(con)
             /\ \E s \in disc : Handler(s) = con /\ Unaliased(s))
            => ~ret'.b ]_vars

\* A scoped_connection object made of the handle of slot s has been destroyed.
Ended(s) == \E o \in ScopedObjs : o[1] = s /\ scoped[o] = "gone"

\* The scoped_connection of slot s is alive, and so is its copy if one was
\* made.
Held(s) == scoped[<< s, "orig" >>] = "live" /\ ~Ended(s)

\* C12: the destruction of a scoped_connection disconnects its connection:
\* the slot is active no more, and no later step of an emit invokes a slot
\* whose scoped_connection was destroyed; an emit during which no connection
\* changes has at the end of its walk invoked every slot that is held by a
\* live scoped_connection and was not disconnected.
C12_ScopedConnectionDisconnects ==
    [][ /\ \A o \in ScopedObjs :
              (scoped[o] = "live" /\ scoped'[o] = "gone")
                  => /\ o[1] \in disc'
                     /\ o[1] \notin Range(ActiveSlots')
        /\ \A i \in 1..Len(stack') :
              (i <= Len(stack) /\ Len(stack'[i].called) > Len(stack[i].called))
                  => ~Ended(Last(stack'[i].called))
        /\ (AtRingEnd /\ ~Top.changed) =>
              \A s \in 1..nconn :
                  (Held(s) /\ s \notin disc) => s \in Range(Top.called) ]_vars

\* C12 witness: an emit is at the end of its walk; it has invoked the slot
\* whose scoped_connection is alive and not the slot whose scoped_connection
\* was destroyed before.
C12_Witness ==
    /\ AtRingEnd /\ ~Top.changed
    /\ \E s \in 1..nconn : Ended(s) /\ s \notin Range(Top.called)
    /\ \E t \in 1..nconn : Held(t) /\ t \in Range(Top.called)

\* C13: the destruction of a scoped_connection whose connection was
\* disconnected before, by a disconnect call or by the destructor of a copy,
\* leaves the connections of the signal as they were: the same slots are
\* active, in the same order.
C13_ScopedDtorAfterDisconnect ==
    [][ \A o \in ScopedObjs :
            (/\ scoped[o] = "live" /\ scoped'[o] = "gone"
             /\ o[1] \in disc)
            => ActiveSlots' = ActiveSlots ]_vars

\* An emit call returns in this step.
Returns == WalkOver /\ Len(stack') < Len(stack)

\* C14: emit with the collation aggregation and the condition_all controller
\* returns the values its slots returned, one for each slot it invoked, in
\* the order of the invocations and with duplicates; it returns the empty
\* container when it invoked no slot, with or without a ring.
C14_CollationReturnsAll ==
    [][ /\ (Returns /\ Top.kind = "collation" /\ Top.ctrl = ConditionAll)
              => /\ ret'.op = "emit"
                 /\ ret'.res.vec = Last(rets)
                 /\ Len(Last(rets)) = Len(Top.called)
        /\ (m_head = Null /\ RecEmitCall("collation", ConditionAll))
              => ret'.op = "emit" /\ ret'.res.vec = << >> ]_vars

\* C14 witness: an emit with the collation aggregation is about to return
\* the equal values of the two slots it invoked.
C14_Witness ==
    /\ WalkOver
    /\ Top.kind = "collation" /\ Top.ctrl = ConditionAll
    /\ Len(Top.called) = 2
    /\ Last(rets) = << 1, 1 >>

\* C15: in an emit with condition_while<Result, T> every value returned
\* before the last one equals T; once a slot has returned another value the
\* loop is over with no further slot invoked, that value is the one the
\* aggregation holds, and with aggregation_last it is what emit returns.
C15_WhileStopsAfterFirstMismatch ==
    [][ /\ \A i \in 1..Len(stack) :
              LET fr  == stack[i]
                  rs  == rets[i]
                  tgt == BoolToInt(fr.ctrl.T)
              IN  fr.ctrl.cond = "while" =>
                    /\ \A k \in 1..(Len(rs) - 1) : rs[k] = tgt
                    /\ (rs # << >> /\ Last(rs) # tgt) =>
                          /\ fr.phase = "loop" /\ ~fr.ok
                          /\ Len(fr.called) = Len(rs)
                    /\ (fr.kind = "last" /\ rs # << >>) =>
                          fr.acc.latest = Last(rs)
        /\ (Returns /\ Top.kind = "last" /\ Top.ctrl.cond = "while" /\ ~Top.ok)
              => ret'.op = "emit" /\ ret'.res.n = Last(Last(rets)) ]_vars

\* C15 witness: with condition_while<Result, false> the first slot has
\* returned true; the loop is over although the next node holds an active
\* slot, and the aggregation holds true.
C15_Witness ==
    /\ WalkOver
    /\ Top.kind = "last" /\ Top.ctrl = ConditionWhile(FALSE)
    /\ Last(rets) = << 1 >>
    /\ Top.acc.latest = 1
    /\ Top.node # m_head /\ m_function[Top.node] # Null

C17_CounterCountsInvocations ==
    [][ /\ (Returns /\ Top.kind = "counter")
              => ret'.op = "emit" /\ ret'.res.n = Len(Top.called)
        /\ \A ctrl \in {ConditionAll, ConditionWhile(TRUE)} :
              (m_head = Null /\ EmitCall("counter", ctrl))
                  => ret'.op = "emit" /\ ret'.res.n = 0 ]_vars

\* C17 witness: an emit with the counter aggregation is about to return 1:
\* it has invoked one slot, which returned false, and the controller has
\* stopped the walk before a node that holds an active slot.
C17_Witness ==
    /\ WalkOver
    /\ Top.kind = "counter"
    /\ Top.acc.count = 1 /\ Len(Top.called) = 1
    /\ ~Top.ok
    /\ Top.node # m_head /\ m_function[Top.node] # Null

\* C18: condition_while<Result, T> lets the emission go on exactly when the
\* value the slot returned, converted to bool, equals T.
C18_WhileComparesAsBoolean ==
    \A i \in 1..Len(stack) :
        (/\ stack[i].ctrl.cond = "while"
         /\ stack[i].phase = "loop"
         /\ rets[i] # << >>)
        => stack[i].ok = ((Last(rets[i]) # 0) = stack[i].ctrl.T)

\* C19: connect through a null receiver pointer creates no ring and no node
\* and leaves the signal as it was; connected and disconnect return false for
\* the handle it returns, and that disconnect changes nothing either.
C19_ConnectNullReceiver ==
    [][ /\ ConnectNull
            => /\ ret'.op = "connect"
               /\ UNCHANGED << ringVars, m_recursionDepth, m_deactivations,
                               stack, exc, ub >>
               /\ ~ConnectedHandler(NullHandler)'
               /\ ~DisconnectHandler(NullHandler).found'
        /\ Disconnect(NullHandler)
            => /\ ret'.op = "disconnect" /\ ~ret'.b
               /\ UNCHANGED << ringVars, m_recursionDepth, m_deactivations,
                               stack, exc, ub >> ]_vars

\* C19 witness: the first connect call on a signal was made through a null
\* receiver pointer, and the signal has no ring.
C19_Witness ==
    /\ ret.op = "connect"
    /\ m_head = Null /\ heap = {}

\* C20: every iteration of the loop of ~signal deletes the first node of the
\* ring, deactivated or not; the loop ends, with the sentinel as the only node
\* left, and after the destruction no node object is alive.
C20_DestructionTerminates ==
    /\ [][ /\ (life = "dtor" /\ life' = "dtor")
                 => /\ heap' = heap \ {m_next[m_head]}
                    /\ Ring' = Tail(Ring)
           /\ (life = "dtor" /\ life' = "dead")
                 => /\ m_head # Null => (Ring = << >> /\ heap = {m_head})
                    /\ heap' = {} ]_vars
    /\ (life = "dtor") ~> (life = "dead")

\* C20 witness: the destructor is running on a ring that holds a deactivated
\* node next to an active one.
C20_Witness ==
    /\ life = "dtor"
    /\ EmptyNodes # {}
    /\ ActiveSlots # << >>

\* The slots that a disconnect has deactivated and no sweep has removed yet.
Pending == { s \in disc \cap alive : m_function[handle[s]] = Null }

\* C21: connected(h) is true for a node that a disconnect has deactivated and
\* that is not swept yet, although that disconnect returned true; for a
\* disconnected slot it is false only when the node is out of the ring.
C21_ConnectedWhileDeactivated ==
    ~ub =>
        /\ \A s \in Pending : ConnectedHandler(Handler(s))
        /\ \A s \in disc :
              ~ConnectedHandler(Handler(s))
                  => (s \notin alive /\ handle[s] \notin RingSet)

\* C21 witness: a slot is running, and connected is true for the handle of a
\* slot that was deactivated in this emission.
C21_Witness ==
    /\ InSlot
    /\ \E s \in Pending : ConnectedHandler(Handler(s))

\* C22: a step that takes a node out of the ring or deletes a node object is
\* taken with the reentrancy counter at 0, and the cursor of every emit call
\* in progress is a node object that is alive and linked in the ring (or the
\* sentinel).
C22_RemovalOnlyAtDepthZero ==
    [][ /\ (~(RingSet \subseteq RingSet') \/ ~(heap \subseteq heap'))
              => m_recursionDepth = 0
        /\ \A i \in 1..Len(stack) :
              /\ stack[i].node \in heap
              /\ stack[i].node \in RingSet \cup {m_head} ]_vars

\* C22 witness: in a nested emission, the cursor of the enclosing pass is at
\* a node that has been deactivated and is still linked in the ring.
C22_Witness ==
    /\ Len(stack) = 2
    /\ m_function[stack[1].node] = Null
    /\ stack[1].node \in RingSet

\* The emit calls in progress whose slot is running.
InvocationsOnStack == { i \in 1..Len(stack) : stack[i].phase = "slot" }

\* C23: the reentrancy counter equals the number of slot invocations of the
\* signal that are on the call stack, and it is 0 when no emission is in
\* progress, after normal returns and after errors.
C23_CounterIsNestingDepth ==
    /\ m_recursionDepth = Cardinality(InvocationsOnStack)
    /\ stack = << >> => m_recursionDepth = 0

\* C23 witness: two slot invocations are nested on the call stack and the
\* counter is 2, after an earlier emission was aborted by an error.
C23_Witness ==
    /\ Len(stack) = 2 /\ InSlot
    /\ m_recursionDepth = 2
    /\ ret.op = "throw"

\* C24: once the signal has a ring, the node objects that are alive form one
\* doubly-linked cycle through the sentinel: prev(next(n)) = n and
\* next(prev(n)) = n for each of them, and following next from the sentinel
\* meets every node once and comes back to the sentinel.
C24_RingIsCycle ==
    m_head # Null =>
        LET cyc == << m_head >> \o Ring
        IN  /\ \A i \in 1..Len(cyc) :
                  /\ m_next[cyc[i]] # Null /\ m_prev[cyc[i]] # Null
                  /\ m_prev[m_next[cyc[i]]] = cyc[i]
                  /\ m_next[m_prev[cyc[i]]] = cyc[i]
            /\ Cardinality(Range(cyc)) = Len(cyc)
            /\ m_next[Last(cyc)] = m_head
            /\ heap = Range(cyc)

\* C25: a node of the ring other than the sentinel has an empty function
\* exactly when a disconnect has deactivated it and no sweep has removed it
\* yet; the node a connect call puts into the ring has a function, and the
\* sweep removes disconnected nodes only.
C25_EmptyIffDeactivated ==
    [][ /\ \A a \in RingSet : (m_function[a] = Null) = (Owner(a) \in disc)
        /\ nconn' = nconn + 1 =>
              /\ handle'[nconn'] \in RingSet'
              /\ m_function'[handle'[nconn']] # Null
        /\ Len(stack') < Len(stack) => (alive \ alive') \subseteq disc ]_vars

\* C26: the sentinel is not matched by a lookup and is not removed:
\* connected is false for the sentinel's identity, a disconnect with it
\* returns false and changes nothing, and no step deletes the sentinel.
C26_SentinelNeverMatched ==
    [][ /\ m_head # Null => ~ConnectedId(m_head)
        /\ (m_head # Null /\ Disconnect(<< This, m_head >>))
              => /\ ret'.op = "disconnect" /\ ~ret'.b
                 /\ UNCHANGED << ringVars, m_deactivations >>
        /\ m_head # Null => (m_head' = m_head /\ m_head \in heap') ]_vars

C28_FlagCoversDeactivatedNodes ==
    [][ /\ Pending # {} => m_deactivations
        /\ (m_deactivations /\ ~m_deactivations')
              => /\ Len(stack) = 1 /\ stack' = << >> /\ ~exc
                 /\ EmptyNodes' = {}
        /\ (Len(stack) = 1 /\ stack' = << >> /\ ~exc)
              => (Pending' = {} /\ alive' = alive \ Pending) ]_vars

\* C28 witness: the outermost emit is about to return with the flag set and
\* two deactivated nodes in the ring.
C28_Witness ==
    /\ Len(stack) = 1 /\ WalkOver
    /\ m_deactivations
    /\ Cardinality(Pending) = 2

\* C29: the aggregation of every emit call in progress holds the values
\* returned to that call by the slots of its own walk, in the order of the
\* walk, and that is what the call returns; the return of a nested emit
\* leaves the enclosing calls as they were, so their walks go on whatever the
\* controller of the nested call has decided.
C29_ResultFromOwnWalk ==
    [][ /\ \A i \in 1..Len(stack) :
              /\ stack[i].acc.vec = rets[i]
              /\ Len(rets[i]) = Len(stack[i].called)
                                  - (IF stack[i].phase = "slot" THEN 1 ELSE 0)
              /\ i < Len(stack) => stack[i].ok
        /\ Returns =>
              /\ ret'.op = "emit" /\ ret'.res.vec = Last(rets)
              /\ \A i \in 1..(Len(stack) - 1) :
                    [stack'[i] EXCEPT !.changed = FALSE]
                        = [stack[i] EXCEPT !.changed = FALSE] ]_vars

\* C29 witness: a nested emit that its controller has stopped is about to
\* return, while the enclosing pass, which holds another sequence of values,
\* is not stopped.
C29_Witness ==
    /\ Len(stack) = 2 /\ WalkOver
    /\ ~Top.ok
    /\ stack[1].ok
    /\ rets[1] # << >> /\ rets[2] # << >> /\ rets[1] # rets[2]

\* C30: while an emit call whose slots neither connect nor emit is in
\* progress the ring stays the ring the call started with, every move of its
\* cursor is a move to the next node of that ring, and the slots it has
\* invoked are no more than the nodes its cursor has reached, so no more
\* than the ring holds; and the call comes to an end.
C30_WalkVisitsOnce ==
    /\ [][ stack # << >> =>
             /\ Len(Top.called) <= Pos(Top.node)
                                     - (IF Top.phase = "loop" THEN 1 ELSE 0)
             /\ Len(Top.called) <= Len(Ring)
             /\ stack' # << >> =>
                   /\ m_head' = m_head /\ Ring' = Ring
                   /\ \/ stack'[1].node = Top.node
                      \/ Pos(stack'[1].node) = Pos(Top.node) + 1 ]_vars
    /\ (stack # << >>) ~> (stack = << >>)

\* C30 witness: an emit call is at the end of a ring of two nodes, has
\* invoked the slot of the first, which disconnected the second, and has
\* passed over the second.
C30_Witness ==
    /\ WalkOver /\ Top.node = m_head
    /\ Len(Ring) = 2
    /\ Len(Top.called) = 1
    /\ m_function[Ring[1]] # Null /\ m_function[Ring[2]] = Null

====
